---- MODULE Spec2Model ----
(***************************************************************************)
(* Model of lib/babel-pipeline.js: validate(conf), build(projectDir,        *)
(* cacheDir, userOptions, compileEnhancements) and the per-file transform   *)
(* function that build returns, run by several processes over one shared    *)
(* cache directory.                                                         *)
(*                                                                          *)
(* Strings and buffers are sequences of one-character (one-byte) tokens,    *)
(* so that concatenation, BOM stripping and extension extraction are        *)
(* computed and not assumed.  Source files handed to the transform function *)
(* are script files with the extensions .js and .mjs.                       *)
(***************************************************************************)
EXTENDS Integers, Sequences, FiniteSets, TLC

----------------------------------------------------------------------------
(* Bounds of the model *)

NumProcs == 2
MaxCalls == 3

Procs == 1..NumProcs

----------------------------------------------------------------------------
(* JavaScript values *)

Undefined == [t |-> "undefined"]
Null == [t |-> "null"]
Bool(b) == [t |-> "boolean", v |-> b]
Num(n) == [t |-> "number", v |-> n]
Str(s) == [t |-> "string", v |-> s]
Arr(s) == [t |-> "array", v |-> s]
Obj(f) == [t |-> "object", v |-> f]

\* !!v
Truthy(v) ==
    CASE v.t = "undefined" -> FALSE
      [] v.t = "null" -> FALSE
      [] v.t = "boolean" -> v.v
      [] v.t = "number" -> v.v # 0
      [] v.t = "string" -> v.v # <<>>
      [] OTHER -> TRUE

\* typeof v === 'object'
TypeofObject(v) == v.t \in {"null", "array", "object"}

\* v[key]
Get(v, key) ==
    IF v.t = "object" /\ key \in DOMAIN v.v THEN v.v[key] ELSE Undefined

\* Object.keys(v).length
NumKeys(v) ==
    CASE v.t = "object" -> Cardinality(DOMAIN v.v)
      [] v.t = "array" -> Len(v.v)
      [] OTHER -> 0

\* Object.assign({}, a, b) on the property maps of two objects
Assign(a, b) ==
    [k \in DOMAIN a \cup DOMAIN b |-> IF k \in DOMAIN b THEN b[k] ELSE a[k]]

----------------------------------------------------------------------------
(* Strings *)

RECURSIVE Flatten(_)
Flatten(parts) ==
    IF parts = <<>> THEN <<>> ELSE Head(parts) \o Flatten(Tail(parts))

\* md5Hex(input) with input an array: every element is fed to one hash, in
\* order and without a separator.  The digest is collision-free on the bytes
\* it is fed and is a self-delimiting block (fixed length in the code).
Md5Hex(input) == <<"md5<">> \o Flatten(input) \o <<">">>

BOM == <<"EF", "BB", "BF">>

\* the buffer as read, byte order mark included
StripBomBufKept(buf) == buf

\* stripBomBuf(buf)
StripBomBuf(buf) ==
    IF Len(buf) >= 3 /\ SubSeq(buf, 1, 3) = BOM
    THEN SubSeq(buf, 4, Len(buf))
    ELSE buf

\* index of the last occurrence of token c in s, 0 when there is none
RECURSIVE LastIndexOf(_, _)
LastIndexOf(s, c) ==
    IF s = <<>> THEN 0
    ELSE IF s[Len(s)] = c THEN Len(s)
    ELSE LastIndexOf(SubSeq(s, 1, Len(s) - 1), c)

\* path.basename(p)
BaseName(p) == SubSeq(p, LastIndexOf(p, "/") + 1, Len(p))

\* path.dirname(p)
DirName(p) == SubSeq(p, 1, LastIndexOf(p, "/") - 1)

\* path.extname(p): from the last dot of the base name, "" when the base
\* name has no dot or only a leading one
ExtName(p) ==
    LET b == BaseName(p)
        i == LastIndexOf(b, ".")
    IN IF i <= 1 THEN <<>> ELSE SubSeq(b, i, Len(b))

\* path.join(dir, name)
PathJoin(dir, name) == dir \o <<"/">> \o name

----------------------------------------------------------------------------
(* Outcome of a call: a returned value or a thrown error *)

Returned(v) == [threw |-> FALSE, value |-> v]
Thrown(e) == [threw |-> TRUE, error |-> e]

----------------------------------------------------------------------------
(* validate(conf) *)

\* const defaultOptions = {babelrc: true}
DefaultOptions == [babelrc |-> Bool(TRUE)]

\* the condition of the throw without the count of the keys
ValidateRejectsAnyKeys(conf) ==
    \/ ~Truthy(conf)
    \/ ~TypeofObject(conf)
    \/ ~Truthy(Get(conf, "testOptions"))
    \/ ~TypeofObject(Get(conf, "testOptions"))
    \/ Get(conf, "testOptions").t = "array"

\* the condition of the throw
ValidateRejects(conf) ==
    \/ ~Truthy(conf)
    \/ ~TypeofObject(conf)
    \/ ~Truthy(Get(conf, "testOptions"))
    \/ ~TypeofObject(Get(conf, "testOptions"))
    \/ Get(conf, "testOptions").t = "array"
    \/ NumKeys(conf) > 1

\* validate with the merge turned round: the defaults are assigned last
ValidateDefaultsWin(conf) ==
    IF conf = Bool(FALSE) THEN Returned(Null)
    ELSE IF conf = Undefined
    THEN Returned(Obj([testOptions |-> Obj(DefaultOptions)]))
    ELSE IF ValidateRejects(conf)
    THEN Thrown("Unexpected Babel configuration for AVA")
    ELSE Returned(Obj([testOptions |->
             Obj(Assign(Get(conf, "testOptions").v, DefaultOptions))]))

Validate(conf) ==
    IF conf = Bool(FALSE) THEN Returned(Null)
    ELSE IF conf = Undefined
    THEN Returned(Obj([testOptions |-> Obj(DefaultOptions)]))
    ELSE IF ValidateRejects(conf)
    THEN Thrown("Unexpected Babel configuration for AVA")
    ELSE Returned(Obj([testOptions |->
             Obj(Assign(DefaultOptions, Get(conf, "testOptions").v))]))

\* what validate leaves of the object it was handed: the target of
\* Object.assign is a fresh {}, conf and conf.testOptions are only read
ValidateLeaves(conf) == conf

----------------------------------------------------------------------------
(* build(projectDir, cacheDir, userOptions, compileEnhancements) *)

TestEnv == <<"t", "e", "s", "t">>
DevelopmentEnv == <<"d", "e", "v", "e", "l", "o", "p", "m", "e", "n", "t">>

\* a resolution without the last fallback: an empty NODE_ENV is kept
EnvNameKeepsEmpty(env) ==
    LET babelEnv == IF "BABEL_ENV" \in DOMAIN env THEN env["BABEL_ENV"] ELSE <<>>
        nodeEnv == IF "NODE_ENV" \in DOMAIN env THEN env["NODE_ENV"] ELSE TestEnv
    IN IF babelEnv # <<>> THEN babelEnv ELSE nodeEnv

\* process.env.BABEL_ENV || ('NODE_ENV' in process.env ? process.env.NODE_ENV
\* : 'test') || 'development'; env maps the variables that are set to their
\* values, and a variable that is not set reads as undefined
EnvName(env) ==
    LET babelEnv == IF "BABEL_ENV" \in DOMAIN env THEN env["BABEL_ENV"] ELSE <<>>
        nodeEnv == IF "NODE_ENV" \in DOMAIN env THEN env["NODE_ENV"] ELSE TestEnv
    IN IF babelEnv # <<>> THEN babelEnv
       ELSE IF nodeEnv # <<>> THEN nodeEnv
       ELSE DevelopmentEnv

\* const seedInputs = [process.versions.node, pkg.version, projectDir, envName]
SeedInputs(proc, projectDir) ==
    <<proc.node, proc.pkg, projectDir, EnvName(proc.env)>>

AsyncGenerators == "@babel/plugin-syntax-async-generators"
ObjectRestSpread == "@babel/plugin-syntax-object-rest-spread"
Stage4 == "../stage-4"
TransformTestFiles == "@ava/babel-preset-transform-test-files"

\* require(ref): the module a reference resolves to; the engine's short
\* plugin names resolve to the same module as the full name
Require(ref) ==
    CASE ref = "@babel/syntax-async-generators" -> AsyncGenerators
      [] ref = "@babel/syntax-object-rest-spread" -> ObjectRestSpread
      [] OTHER -> ref

\* babel.createConfigItem([require.resolve(ref), options], {type})
CreateConfigItem(ref, type, options) ==
    [value |-> Require(ref), type |-> type, options |-> options]

\* the config items the engine makes of a user's plugins or presets list
ConfigItems(list, type) ==
    IF list.t = "array"
    THEN [i \in 1..Len(list.v) |-> CreateConfigItem(list.v[i].v[1], type, "{}")]
    ELSE <<>>

\* makeValueChecker(ref) applied by Array.prototype.some
SomeValue(items, ref) == \E i \in 1..Len(items) : items[i].value = Require(ref)

\* babel.loadPartialConfig(Object.assign({...}, userOptions &&
\* userOptions.testOptions, {envName, sourceMaps: true, filename})).options
\* with filename deleted and configFile set to false
PartialTestOptions(projectDir, userOptions, envName) ==
    LET user == IF Truthy(userOptions) THEN Get(userOptions, "testOptions").v
                ELSE <<>>
        merged == Assign(Assign([babelrc |-> Bool(FALSE),
                                 babelrcRoots |-> <<projectDir>>,
                                 configFile |-> Bool(FALSE),
                                 cwd |-> projectDir],
                                user),
                         [envName |-> envName, sourceMaps |-> Bool(TRUE)])
        pl == IF "plugins" \in DOMAIN user THEN user["plugins"] ELSE Undefined
        pr == IF "presets" \in DOMAIN user THEN user["presets"] ELSE Undefined
    IN Assign(merged, [plugins |-> ConfigItems(pl, "plugin"),
                       presets |-> ConfigItems(pr, "preset")])

\* the four conditional insertions of the baseline entries
WithAsyncGenerators(plugins) ==
    IF ~SomeValue(plugins, AsyncGenerators)
    THEN <<CreateConfigItem(AsyncGenerators, "plugin", "{}")>> \o plugins
    ELSE plugins

WithObjectRestSpread(plugins) ==
    IF ~SomeValue(plugins, ObjectRestSpread)
    THEN <<CreateConfigItem(ObjectRestSpread, "plugin", "{}")>> \o plugins
    ELSE plugins

\* the staged-syntax preset put in front whether or not there are user options
WithStage4Always(presets, userOptions) ==
    IF ~SomeValue(presets, Stage4)
    THEN <<CreateConfigItem(Stage4, "preset", "{}")>> \o presets
    ELSE presets

WithStage4(presets, userOptions) ==
    IF Truthy(userOptions) /\ ~SomeValue(presets, Stage4)
    THEN <<CreateConfigItem(Stage4, "preset", "{}")>> \o presets
    ELSE presets

WithTransformTestFiles(presets, compileEnhancements) ==
    IF compileEnhancements /\ ~SomeValue(presets, TransformTestFiles)
    THEN Append(presets,
                CreateConfigItem(TransformTestFiles, "preset", "{powerAssert: true}"))
    ELSE presets

\* testOptions after the insertions
TestOptions(projectDir, userOptions, compileEnhancements, envName) ==
    LET partial == PartialTestOptions(projectDir, userOptions, envName)
    IN Assign(partial,
              [plugins |-> WithObjectRestSpread(WithAsyncGenerators(partial["plugins"])),
               presets |-> WithTransformTestFiles(
                               WithStage4(partial["presets"], userOptions),
                               compileEnhancements)])

\* const cacheKey = md5Hex(seedInputs)
CacheKey(seedInputs) == Md5Hex(seedInputs)

\* an early return that looks at the user's options alone
BuildSkipsWithoutOptions(userOptions, compileEnhancements) ==
    ~Truthy(userOptions)

\* the early return of build
BuildSkips(userOptions, compileEnhancements) ==
    ~Truthy(userOptions) /\ ~compileEnhancements

\* build: Null, or the state the returned function closes over.  proc is the
\* process the call runs in: process.versions.node, pkg.version, process.env
Build(proc, projectDir, cacheDir, userOptions, compileEnhancements) ==
    IF BuildSkips(userOptions, compileEnhancements) THEN Null
    ELSE LET envName == EnvName(proc.env)
             seedInputs == SeedInputs(proc, projectDir)
         IN [t |-> "function",
             cacheDir |-> cacheDir,
             seedInputs |-> seedInputs,
             cacheKey |-> CacheKey(seedInputs),
             finalOptions |-> TestOptions(projectDir, userOptions,
                                          compileEnhancements, envName)]

----------------------------------------------------------------------------
(* The source tree and the engine *)

FileA == <<"/", "p", "/", "a", ".", "j", "s">>
FileB == <<"/", "p", "/", "b", ".", "j", "s">>
FileC == <<"/", "p", "/", "c", ".", "j", "s">>
FileD == <<"/", "p", "/", "d", ".", "j", "s">>
FileE == <<"/", "p", "/", "t", "/", "e", ".", "j", "s">>
FileM == <<"/", "p", "/", "a", ".", "m", "j", "s">>
FileG == <<"/", "p", "/", "g", ".", "j", "s">>
FileH == <<"/", "p", "/", "h", ".", "j", "s">>
FileJ == <<"/", "p", "/", "j", ".", "j", "s">>
FileK == <<"/", "p", "/", "t", "/", "k", ".", "j", "s">>
FileS == <<"/", "p", "/", "s", ".", "j", "s">>
SiblingMap == <<"/", "p", "/", "m", ".", "m", "a", "p">>

\* The bytes of the files of the source tree.  "x" and "y" are program
\* text, "!" is text the engine rejects, "#I" and "#i" are a well-formed and
\* a malformed inline source-map comment, "#F" and "#f" are a comment naming
\* the map file m.map and one naming a map file that does not exist.
Disk ==
    (FileA :> <<"x">>) @@ (FileB :> BOM \o <<"x">>) @@ (FileC :> <<"!">>)
    @@ (FileD :> <<"y">>) @@ (FileE :> <<"x">>) @@ (FileM :> <<"x">>)
    @@ (FileG :> <<"x", "#I">>) @@ (FileH :> <<"x", "#i">>)
    @@ (FileJ :> <<"x", "#f">>) @@ (FileK :> <<"x", "#F">>)
    @@ (FileS :> <<"x", "#F">>) @@ (SiblingMap :> <<"{", "}">>)

\* fs.readFileSync(filename)
ReadFileSync(filename) == Disk[filename]

Has(s, c) == \E i \in 1..Len(s) : s[i] = c

\* convertSourceMap.fromSource(code): the inline comment's map, null when
\* there is no inline comment; parsing a malformed one throws
FromSource(code) ==
    IF Has(code, "#i") THEN Thrown("SyntaxError")
    ELSE IF Has(code, "#I") THEN Returned([map |-> "inline"])
    ELSE Returned(Null)

\* convertSourceMap.fromMapFileSource(code, dirPath): the map read from the
\* file the comment names, null when there is no such comment; reading a
\* file that does not exist throws
FromMapFileSource(code, dirPath) ==
    IF Has(code, "#f") THEN Thrown("ENOENT")
    ELSE IF Has(code, "#F")
    THEN IF PathJoin(dirPath, BaseName(SiblingMap)) \in DOMAIN Disk
         THEN Returned([map |-> "file"])
         ELSE Thrown("ENOENT")
    ELSE Returned(Null)

\* getSourceMap(filePath, code)
GetSourceMap(filePath, code) ==
    LET first == FromSource(code)
    IN IF first.threw THEN first
       ELSE LET sourceMap == IF first.value = Null
                             THEN FromMapFileSource(code, DirName(filePath))
                             ELSE first
            IN IF sourceMap.threw THEN sourceMap
               ELSE IF sourceMap.value = Null THEN Returned(Undefined)
               ELSE Returned(sourceMap.value)

\* babel.transformSync(inputCode, options): deterministic in its inputs;
\* throws on text it cannot parse
TransformSync(inputCode, options) ==
    IF Has(inputCode, "!") THEN Thrown("SyntaxError")
    ELSE Returned([code |-> [input |-> inputCode, options |-> options],
                   map |-> [input |-> inputCode, options |-> options]])

----------------------------------------------------------------------------
(* The cache directory *)

\* const contents = stripBomBuf(fs.readFileSync(filename))
Contents(filename) == StripBomBuf(ReadFileSync(filename))

\* const hash = md5Hex([cacheKey, contents])
Hash(cacheKey, contents) == Md5Hex(<<cacheKey, contents>>)

\* a cache path made of the digest and the file's own name
CachePathByName(f, filename) ==
    PathJoin(f.cacheDir, Hash(f.cacheKey, StripBomBuf(ReadFileSync(filename)))
                         \o BaseName(filename))

\* const cachePath = path.join(cacheDir, `${hash}${ext}`)
CachePath(f, filename) ==
    PathJoin(f.cacheDir, Hash(f.cacheKey, Contents(filename)) \o ExtName(filename))

\* const mapPath = `${cachePath}.map`
MapPath(cachePath) == cachePath \o <<".", "m", "a", "p">>

\* a write in place, under the final name
TmpNameInPlace(path, p) == path

\* the temporary name writeFileAtomic gives the file it writes for process p
TmpName(path, p) == path \o <<".", ToString(p)>>

\* JSON.stringify(map)
MapData(result) == [kind |-> "map", json |-> result.map]

\* `${code}\n${comment}` with the comment naming mapPath
CodeData(result, mapPath) ==
    [kind |-> "code", code |-> result.code, comment |-> mapPath]

\* a cache that is never hit
ExistsSyncNever(files, path) == FALSE

\* fs.existsSync(path) on the directory's files
ExistsSync(files, path) == path \in DOMAIN files

\* the directory with `path` holding `file`
Put(files, path, file) ==
    [q \in DOMAIN files \cup {path} |-> IF q = path THEN file ELSE files[q]]

\* the directory without `path`
Remove(files, path) == [q \in DOMAIN files \ {path} |-> files[q]]

\* writeFileAtomic: the temporary file is opened and written in part
OpenTmp(files, path, data, p) ==
    Put(files, TmpName(path, p), [data |-> data, complete |-> FALSE])

\* a write that stops short of the whole data
WriteTmpShort(files, path, data, p) ==
    Put(files, TmpName(path, p), [data |-> data, complete |-> FALSE])

\* writeFileAtomic: the temporary file is written in full and synced
WriteTmp(files, path, data, p) ==
    Put(files, TmpName(path, p), [data |-> data, complete |-> TRUE])

\* the temporary file is deleted and nothing is published
RenameTmpLost(files, path, p) == Remove(files, TmpName(path, p))

\* writeFileAtomic: the temporary file is renamed over the final name
RenameTmp(files, path, p) ==
    Put(Remove(files, TmpName(path, p)), path, files[TmpName(path, p)])

----------------------------------------------------------------------------
(* Processes calling their transform function over one cache directory *)

VARIABLES
    fn,         \* fn[p]: the function build returned in process p
    frame,      \* frame[p]: the call of fn[p] in progress, its locals and position,
                \* and the log of what it has done so far
    fs,         \* the files of the cache directory: path -> [data, complete]
    ncalls,     \* calls started so far
    completed,  \* history: the slow paths that ran to their end
    crashed,    \* history: cache paths a process crashed on while publishing
    conf,       \* the configuration handed to validate
    given,      \* the configuration as it was when the caller handed it over
    stage,      \* "start", "validated", "built": how far the configuration got
    resolved,   \* the outcome of validate(conf)
    built,      \* the arguments and the outcome of build
    keys        \* keys[i]: a build and the cache path it derives for a file

protocolVars == <<fn, frame, fs, ncalls, completed, crashed>>
configVars == <<conf, given, stage, resolved, built>>
vars == <<fn, frame, fs, ncalls, completed, crashed, conf, given, stage, resolved, built, keys>>

CacheDir == <<"/", "c">>
ProjectDir == <<"/", "p">>

\* the process environment of the runs of the protocol
Proc0 == [node |-> <<"8">>, pkg |-> <<"1">>, env |-> <<>>]

UserPlugin == Obj([testOptions |-> Obj([babelrc |-> Bool(TRUE),
                                        plugins |-> Arr(<<Str(<<"user-plugin">>)>>)])])

\* the functions the processes run: same seed inputs, two configurations
TransformFns ==
    { Build(Proc0, ProjectDir, CacheDir, u, TRUE) :
        u \in {Validate(Undefined).value, UserPlugin} }

\* Processes are interchangeable: the assignment of functions to processes
\* is drawn up to a renaming of the processes.
FnRank(f) == IF SomeValue(f.finalOptions["plugins"], "user-plugin") THEN 1 ELSE 0

\* the files the processes transform
TestFiles == {FileA, FileC}

Idle ==
    [pc |-> "idle", filename |-> <<>>, cachePath |-> <<>>, result |-> Null,
     ret |-> Null, via |-> "none", nExists |-> 0, nEngine |-> 0, nWrites |-> 0,
     warm |-> <<>>, recovering |-> FALSE, log |-> <<>>]

\* no configuration in hand, no key derived
ConfigAtRest ==
    /\ conf = Undefined
    /\ given = Undefined
    /\ stage = "none"
    /\ resolved = Null
    /\ built = Null

KeysAtRest == keys = <<>>

\* the cache directory is empty and no call is in progress
ProtocolAtRest ==
    /\ frame = [p \in Procs |-> Idle]
    /\ fs = <<>>
    /\ ncalls = 0
    /\ completed = {}
    /\ crashed = {}

Init ==
    /\ fn \in [Procs -> TransformFns]
    /\ \A p \in Procs, q \in Procs : p < q => FnRank(fn[p]) <= FnRank(fn[q])
    /\ ProtocolAtRest
    /\ ConfigAtRest
    /\ KeysAtRest

AtRest == {"idle", "done", "threw"}
MidPublish == {"mapWrite", "mapRename", "codeOpen", "codeWrite", "codeRename"}

\* the path an earlier completed slow path returned for this seed digest and
\* file, <<>> when there is none
WarmPath(cacheKey, filename) ==
    IF \E c \in completed : c.cacheKey = cacheKey /\ c.filename = filename
    THEN (CHOOSE c \in completed : c.cacheKey = cacheKey /\ c.filename = filename).path
    ELSE <<>>

\* filename => { ... } up to the existence check: contents, ext, hash and
\* cachePath are computed from the source file, then
\* if (fs.existsSync(cachePath)) return cachePath
Call(p, filename) ==
    /\ frame[p].pc \in AtRest
    /\ ncalls < MaxCalls
    /\ LET cachePath == CachePath(fn[p], filename)
           started == [Idle EXCEPT !.filename = filename,
                                   !.cachePath = cachePath,
                                   !.nExists = 1,
                                   !.warm = WarmPath(fn[p].cacheKey, filename),
                                   !.recovering = cachePath \in crashed
                                                  /\ cachePath \notin DOMAIN fs]
       IN frame' = [frame EXCEPT ![p] =
              IF ExistsSync(fs, cachePath)
              THEN [started EXCEPT !.pc = "done", !.via = "fast",
                                   !.ret = Returned(cachePath)]
              ELSE [started EXCEPT !.pc = "transform"]]
    /\ ncalls' = ncalls + 1
    /\ UNCHANGED <<fn, fs, completed, crashed, configVars, keys>>

\* a transform step that opens the map's temporary file before the engine runs
TransformOpensFirst(p) ==
    /\ frame[p].pc = "transform"
    /\ LET inputCode == Contents(frame[p].filename)
           out == TransformSync(inputCode, fn[p].finalOptions)
       IN /\ frame' = [frame EXCEPT ![p] =
                 IF out.threw
                 THEN [@ EXCEPT !.pc = "threw", !.ret = out, !.nEngine = @ + 1,
                                !.nWrites = @ + 1]
                 ELSE [@ EXCEPT !.pc = "mapOpen", !.via = "slow",
                                !.result = out.value, !.nEngine = @ + 1]]
          /\ fs' = IF out.threw
                   THEN OpenTmp(fs, MapPath(frame[p].cachePath), Null, p)
                   ELSE fs
    /\ UNCHANGED <<fn, ncalls, completed, crashed, configVars, keys>>

\* a function that goes from the engine straight to the code file
TransformSkipsMap(p) ==
    /\ frame[p].pc = "transform"
    /\ LET inputCode == Contents(frame[p].filename)
           inputSourceMap == GetSourceMap(frame[p].filename, inputCode)
           out == TransformSync(inputCode,
                      Assign(fn[p].finalOptions,
                             [inputSourceMap |-> inputSourceMap.value,
                              filename |-> frame[p].filename]))
       IN frame' = [frame EXCEPT ![p] =
              IF inputSourceMap.threw
              THEN [@ EXCEPT !.pc = "threw", !.ret = inputSourceMap]
              ELSE IF out.threw
              THEN [@ EXCEPT !.pc = "threw", !.ret = out, !.nEngine = @ + 1]
              ELSE [@ EXCEPT !.pc = "codeOpen", !.via = "slow",
                             !.result = out.value, !.nEngine = @ + 1,
                             !.log = Append(@, "engine returned")]]
    /\ UNCHANGED <<fn, fs, ncalls, completed, crashed, configVars, keys>>

\* inputCode, getSourceMap and babel.transformSync
Transform(p) ==
    /\ frame[p].pc = "transform"
    /\ LET inputCode == Contents(frame[p].filename)
           inputSourceMap == GetSourceMap(frame[p].filename, inputCode)
           out == TransformSync(inputCode,
                      Assign(fn[p].finalOptions,
                             [inputSourceMap |-> inputSourceMap.value,
                              filename |-> frame[p].filename]))
       IN frame' = [frame EXCEPT ![p] =
              IF inputSourceMap.threw
              THEN [@ EXCEPT !.pc = "threw", !.ret = inputSourceMap]
              ELSE IF out.threw
              THEN [@ EXCEPT !.pc = "threw", !.ret = out, !.nEngine = @ + 1]
              ELSE [@ EXCEPT !.pc = "mapOpen", !.via = "slow",
                             !.result = out.value, !.nEngine = @ + 1,
                             !.log = Append(@, "engine returned")]]
    /\ UNCHANGED <<fn, fs, ncalls, completed, crashed, configVars, keys>>

\* a map write that waits while another process is publishing
MapOpenWaits(p) ==
    /\ frame[p].pc = "mapOpen"
    /\ \A q \in Procs \ {p} : frame[q].pc \notin MidPublish
    /\ fs' = OpenTmp(fs, MapPath(frame[p].cachePath), MapData(frame[p].result), p)
    /\ frame' = [frame EXCEPT ![p].pc = "mapWrite", ![p].nWrites = @ + 1]
    /\ UNCHANGED <<fn, ncalls, completed, crashed, configVars, keys>>

\* writeFileAtomic.sync(mapPath, JSON.stringify(map)), in its three steps
MapOpen(p) ==
    /\ frame[p].pc = "mapOpen"
    /\ fs' = OpenTmp(fs, MapPath(frame[p].cachePath), MapData(frame[p].result), p)
    /\ frame' = [frame EXCEPT ![p].pc = "mapWrite", ![p].nWrites = @ + 1,
                              ![p].log = Append(@, "map write begun")]
    /\ UNCHANGED <<fn, ncalls, completed, crashed, configVars, keys>>

MapWrite(p) ==
    /\ frame[p].pc = "mapWrite"
    /\ fs' = WriteTmp(fs, MapPath(frame[p].cachePath), MapData(frame[p].result), p)
    /\ frame' = [frame EXCEPT ![p].pc = "mapRename"]
    /\ UNCHANGED <<fn, ncalls, completed, crashed, configVars, keys>>

MapRename(p) ==
    /\ frame[p].pc = "mapRename"
    /\ fs' = RenameTmp(fs, MapPath(frame[p].cachePath), p)
    /\ frame' = [frame EXCEPT ![p].pc = "codeOpen",
                              ![p].log = Append(@, "map renamed")]
    /\ UNCHANGED <<fn, ncalls, completed, crashed, configVars, keys>>

\* writeFileAtomic.sync(cachePath, `${code}\n${comment}`), in its three steps,
\* and return cachePath
CodeOpen(p) ==
    /\ frame[p].pc = "codeOpen"
    /\ fs' = OpenTmp(fs, frame[p].cachePath,
                     CodeData(frame[p].result, MapPath(frame[p].cachePath)), p)
    /\ frame' = [frame EXCEPT ![p].pc = "codeWrite", ![p].nWrites = @ + 1,
                              ![p].log = Append(@, "code write begun")]
    /\ UNCHANGED <<fn, ncalls, completed, crashed, configVars, keys>>

CodeWrite(p) ==
    /\ frame[p].pc = "codeWrite"
    /\ fs' = WriteTmp(fs, frame[p].cachePath,
                      CodeData(frame[p].result, MapPath(frame[p].cachePath)), p)
    /\ frame' = [frame EXCEPT ![p].pc = "codeRename"]
    /\ UNCHANGED <<fn, ncalls, completed, crashed, configVars, keys>>

\* a last step that returns the path and leaves the code under its
\* temporary name
CodeRenameSkipped(p) ==
    /\ frame[p].pc = "codeRename"
    /\ fs' = fs
    /\ frame' = [frame EXCEPT ![p].pc = "done",
                              ![p].ret = Returned(frame[p].cachePath)]
    /\ completed' = completed \cup
           {[cacheKey |-> fn[p].cacheKey, filename |-> frame[p].filename,
             path |-> frame[p].cachePath]}
    /\ UNCHANGED <<fn, ncalls, crashed, configVars, keys>>

CodeRename(p) ==
    /\ frame[p].pc = "codeRename"
    /\ fs' = RenameTmp(fs, frame[p].cachePath, p)
    /\ frame' = [frame EXCEPT ![p].pc = "done",
                              ![p].ret = Returned(frame[p].cachePath),
                              ![p].log = Append(@, "code renamed")]
    /\ completed' = completed \cup
           {[cacheKey |-> fn[p].cacheKey, filename |-> frame[p].filename,
             path |-> frame[p].cachePath]}
    /\ UNCHANGED <<fn, ncalls, crashed, configVars, keys>>

\* the process dies between two steps and is started again; the temporary
\* file it was writing stays behind
Crash(p) ==
    /\ frame[p].pc \notin AtRest
    /\ frame' = [frame EXCEPT ![p] = Idle]
    /\ crashed' = IF frame[p].pc \in MidPublish
                  THEN crashed \cup {frame[p].cachePath}
                  ELSE crashed
    /\ UNCHANGED <<fn, fs, ncalls, completed, configVars, keys>>

\* the next step of the call in progress in process p
Step(p) ==
    \/ Transform(p)
    \/ MapOpen(p)
    \/ MapWrite(p)
    \/ MapRename(p)
    \/ CodeOpen(p)
    \/ CodeWrite(p)
    \/ CodeRename(p)

\* the steps between a position in the function and its end
StepsLeft(pc) ==
    CASE pc = "transform" -> 7
      [] pc = "mapOpen" -> 6
      [] pc = "mapWrite" -> 5
      [] pc = "mapRename" -> 4
      [] pc = "codeOpen" -> 3
      [] pc = "codeWrite" -> 2
      [] pc = "codeRename" -> 1
      [] OTHER -> 0

Next ==
    \E p \in Procs :
        \/ \E filename \in TestFiles : Call(p, filename)
        \/ Transform(p)
        \/ MapOpen(p)
        \/ MapWrite(p)
        \/ MapRename(p)
        \/ CodeOpen(p)
        \/ CodeWrite(p)
        \/ CodeRename(p)
        \/ Crash(p)

Spec == Init /\ [][Next]_vars

\* the same processes over source files that carry a source-map comment:
\* a well-formed inline map (g.js), a sibling map that is there (s.js), a
\* malformed inline map (h.js), a sibling map that is missing (j.js), and
\* one that is missing from the file's own directory (t/k.js)
AnnotatedFiles == {FileG, FileS, FileH, FileJ, FileK}

NextLocate ==
    \E p \in Procs :
        \/ \E filename \in AnnotatedFiles : Call(p, filename)
        \/ Transform(p)
        \/ MapOpen(p)
        \/ MapWrite(p)
        \/ MapRename(p)
        \/ CodeOpen(p)
        \/ CodeWrite(p)
        \/ CodeRename(p)
        \/ Crash(p)

SpecLocate == Init /\ [][NextLocate]_vars

----------------------------------------------------------------------------
(* A configuration on its way through validate and build *)

UserPluginName == Str(<<"user-plugin">>)
UserPresetName == Str(<<"user-preset">>)

\* option objects validate accepts
OptionObjects ==
    { Obj(<<>>),
      Obj([babelrc |-> Bool(FALSE)]),
      Obj([plugins |-> Arr(<<UserPluginName>>)]),
      Obj([plugins |-> Arr(<<Str(<<AsyncGenerators>>)>>)]),
      Obj([plugins |-> Arr(<<UserPluginName, Str(<<"@babel/syntax-object-rest-spread">>)>>)]),
      Obj([presets |-> Arr(<<Str(<<Stage4>>)>>)]),
      Obj([presets |-> Arr(<<UserPresetName, Str(<<TransformTestFiles>>)>>)]) }

\* the values tried for the testOptions key
TestOptionsValues ==
    OptionObjects \cup
    { Undefined, Null, Bool(FALSE), Bool(TRUE), Num(0), Num(1), Str(<<>>),
      Str(<<"s">>), Arr(<<>>), Arr(<<UserPluginName>>) }

\* the configurations tried
Confs ==
    { Undefined, Null, Bool(FALSE), Bool(TRUE), Num(0), Num(1), Str(<<>>),
      Str(<<"s">>), Arr(<<>>), Arr(<<Obj(<<>>)>>), Obj(<<>>),
      Obj([extraKey |-> Num(1)]) }
    \cup { Obj([testOptions |-> v]) : v \in TestOptionsValues }
    \cup { Obj([testOptions |-> v, extraKey |-> Num(1)]) : v \in TestOptionsValues }

\* the process environments tried
Envs ==
    { <<>>,
      [BABEL_ENV |-> <<"e", "s", "t">>],
      [NODE_ENV |-> <<"c", "i">>],
      [NODE_ENV |-> <<>>],
      [BABEL_ENV |-> <<>>],
      [BABEL_ENV |-> <<>>, NODE_ENV |-> <<"c", "i">>],
      [BABEL_ENV |-> <<>>, NODE_ENV |-> <<>>],
      [BABEL_ENV |-> <<"e", "s", "t">>, NODE_ENV |-> <<"c", "i">>],
      [BABEL_ENV |-> <<"e", "s", "t">>, NODE_ENV |-> <<>>] }

InitConfig ==
    /\ conf \in Confs
    /\ given = conf
    /\ stage = "start"
    /\ resolved = Null
    /\ built = Null
    /\ fn = [p \in Procs |-> CHOOSE f \in TransformFns : FnRank(f) = 0]
    /\ ProtocolAtRest
    /\ KeysAtRest

\* the caller hands the configuration to validate
DoValidate ==
    /\ stage = "start"
    /\ resolved' = Validate(conf)
    /\ conf' = ValidateLeaves(conf)
    /\ stage' = "validated"
    /\ UNCHANGED <<given, built, protocolVars, keys>>

\* the caller hands what validate returned to build
DoBuild(env, compileEnhancements) ==
    /\ stage = "validated"
    /\ ~resolved.threw
    /\ built' = [env |-> env,
                 compileEnhancements |-> compileEnhancements,
                 out |-> Build([node |-> Proc0.node, pkg |-> Proc0.pkg, env |-> env],
                               ProjectDir, CacheDir, resolved.value,
                               compileEnhancements)]
    /\ stage' = "built"
    /\ UNCHANGED <<conf, given, resolved, protocolVars, keys>>

NextConfig ==
    \/ DoValidate
    \/ \E env \in Envs, compileEnhancements \in BOOLEAN :
           DoBuild(env, compileEnhancements)

SpecConfig == InitConfig /\ [][NextConfig]_vars

----------------------------------------------------------------------------
(* Two builds and the cache paths they derive *)

Sides == {1, 2}

KeyProcs ==
    { [node |-> n, pkg |-> k, env |-> e] :
        n \in {<<"8">>, <<"1", "0">>}, k \in {<<"1">>, <<"2">>},
        e \in {<<>>, [BABEL_ENV |-> <<"e", "s", "t">>], [NODE_ENV |-> <<"c", "i">>]} }

ProjectDirs == {<<"/", "p">>, <<"/", "p", "t">>}

KeyFiles == {FileA, FileB, FileD, FileE, FileM}

InitKeys ==
    /\ keys \in [Sides -> { [proc |-> pr, projectDir |-> d, fn |-> Null,
                            filename |-> <<>>, hash |-> <<>>,
                            cachePath |-> <<>>] :
                            pr \in KeyProcs, d \in ProjectDirs }]
    /\ fn = [p \in Procs |-> CHOOSE f \in TransformFns : FnRank(f) = 0]
    /\ ProtocolAtRest
    /\ ConfigAtRest

\* build(projectDir, cacheDir, userOptions, compileEnhancements) on side i
KeyBuild(i) ==
    /\ keys[i].fn = Null
    /\ keys' = [keys EXCEPT ![i].fn =
                   Build(keys[i].proc, keys[i].projectDir, CacheDir,
                         Validate(Undefined).value, TRUE)]
    /\ UNCHANGED <<protocolVars, configVars>>

\* the function of side i derives the cache path of a file
KeyDerive(i, filename) ==
    /\ keys[i].fn # Null
    /\ keys' = [keys EXCEPT ![i].filename = filename,
                            ![i].hash = Hash(keys[i].fn.cacheKey, Contents(filename)),
                            ![i].cachePath = CachePath(keys[i].fn, filename)]
    /\ UNCHANGED <<protocolVars, configVars>>

NextKeys ==
    \E i \in Sides :
        \/ KeyBuild(i)
        \/ \E filename \in KeyFiles : KeyDerive(i, filename)

SpecKeys == InitKeys /\ [][NextKeys]_vars

----------------------------------------------------------------------------
(* Properties of the cache protocol *)

\* the cache paths the processes can derive
CachePaths == { CachePath(f, name) : f \in TransformFns, name \in TestFiles }

\* `file` holds code the engine made under the options of function f
ProducedUnder(file, f) ==
    /\ file.data.kind = "code"
    /\ \A k \in DOMAIN f.finalOptions :
           file.data.code.options[k] = f.finalOptions[k]

\* C1: a call never returns a cache path whose code file was produced by an
\* engine invocation under another function's options, when the two
\* functions' finalized options differ.
C1_NeverStaleForChangedConfiguration ==
    \A p \in Procs :
        (frame[p].pc = "done" /\ frame[p].ret.value \in DOMAIN fs)
        => \A g \in TransformFns :
               g.finalOptions # fn[p].finalOptions
               => ~ProducedUnder(fs[frame[p].ret.value], g)

\* C2: whenever a code file is present at a cache path, a map file that was
\* written in full is present at <cache path>.map.
C2_CodeFileHasCompleteMap ==
    \A cp \in CachePaths :
        cp \in DOMAIN fs
        => /\ MapPath(cp) \in DOMAIN fs
           /\ fs[MapPath(cp)].complete
           /\ fs[MapPath(cp)].data.kind = "map"

C2_Witness ==
    /\ \E cp \in CachePaths : cp \in DOMAIN fs
    /\ crashed # {}
    /\ \E p \in Procs : frame[p].pc \in MidPublish

\* the step of p is the start of a call
CallStep(p) == frame[p].pc \in AtRest /\ frame'[p] # frame[p]

\* C3: a call that finds a file at its cache path at the existence check
\* returns that path at once, having made one existence check, no engine
\* invocation and no write, and leaves the cache directory as it was.
C3_FastPath ==
    [][\A p \in Procs :
          (CallStep(p) /\ CachePath(fn[p], frame'[p].filename) \in DOMAIN fs)
          => /\ frame'[p].pc = "done"
             /\ frame'[p].ret = Returned(CachePath(fn[p], frame'[p].filename))
             /\ frame'[p].nExists = 1
             /\ frame'[p].nEngine = 0
             /\ frame'[p].nWrites = 0
             /\ fs' = fs]_vars

C3_Witness ==
    \E p \in Procs :
        /\ frame[p].pc = "done"
        /\ frame[p].via = "fast"
        /\ frame[p].ret.value \in DOMAIN fs

\* C4: a call made after a slow path completed for the same seed digest and
\* the same file takes the fast path, invokes the engine zero times and
\* returns the path the first call returned.
C4_Idempotence ==
    \A p \in Procs :
        frame[p].warm # <<>>
        => /\ frame[p].pc = "done"
           /\ frame[p].via = "fast"
           /\ frame[p].nEngine = 0
           /\ frame[p].ret = Returned(frame[p].warm)

C4_Witness ==
    \E p \in Procs, q \in Procs :
        /\ p # q
        /\ frame[p].warm # <<>>
        /\ frame[p].pc = "done"
        /\ frame[q].pc = "done"
        /\ frame[q].via = "slow"
        /\ frame[q].filename = frame[p].filename

\* C7: a call in which the engine raises an error ends with that error, has
\* written nothing, and leaves the cache directory and the histories exactly
\* as they were, so that a later call sees what it would have seen without it.
C7_EngineErrorLeavesNoTrace ==
    [][\A p \in Procs :
          /\ (frame'[p].pc \in {"transform", "threw"} /\ frame'[p] # frame[p])
             => /\ fs' = fs
                /\ frame'[p].nWrites = 0
                /\ \A q \in Procs \ {p} : frame'[q] = frame[q]
          /\ (frame'[p].pc = "threw" /\ frame[p].pc # "threw")
             => /\ frame'[p].ret.threw
                /\ completed' = completed
                /\ crashed' = crashed]_vars

C7_Witness ==
    \E p \in Procs, q \in Procs :
        /\ frame[p].pc = "threw"
        /\ frame[p].ret.threw
        /\ frame[p].nEngine = 1
        /\ frame[q].pc = "done"
        /\ frame[q].via = "slow"

\* C8: a crash while publishing leaves no code file at the cache path (a code
\* file is there only when some slow path ran to its end), and a fresh call
\* that starts after such a crash with no code file there runs the slow path
\* with one engine invocation and ends with the code file and its map file
\* published, in full, at the same cache path.
C8_CrashRecovery ==
    /\ \A cp \in CachePaths :
           cp \in DOMAIN fs => \E c \in completed : c.path = cp
    /\ \A p \in Procs :
           frame[p].recovering
           => /\ frame[p].nExists = 1
              /\ frame[p].pc # "threw"
              /\ frame[p].pc = "done"
                 => /\ frame[p].via = "slow"
                    /\ frame[p].nEngine = 1
                    /\ frame[p].ret = Returned(frame[p].cachePath)
                    /\ frame[p].cachePath \in DOMAIN fs
                    /\ fs[frame[p].cachePath].complete
                    /\ fs[frame[p].cachePath].data.kind = "code"
                    /\ MapPath(frame[p].cachePath) \in DOMAIN fs
                    /\ fs[MapPath(frame[p].cachePath)].complete
                    /\ fs[MapPath(frame[p].cachePath)].data.kind = "map"

C8_Witness ==
    \E p \in Procs :
        /\ frame[p].recovering
        /\ frame[p].pc = "done"
        /\ frame[p].via = "slow"

----------------------------------------------------------------------------
(* Properties of the cache key *)

Derived(i) == keys[i].filename # <<>>

\* C5: two builds whose seed tuples differ derive different cache paths for
\* the same file content, and two files whose BOM-stripped contents differ
\* derive different cache paths under the same seed tuple.
C5_CacheKeySensitivity ==
    \A i \in Sides, j \in Sides :
        (Derived(i) /\ Derived(j))
        => /\ (/\ keys[i].fn.seedInputs # keys[j].fn.seedInputs
               /\ Contents(keys[i].filename) = Contents(keys[j].filename))
              => keys[i].cachePath # keys[j].cachePath
           /\ (/\ keys[i].fn.seedInputs = keys[j].fn.seedInputs
               /\ Contents(keys[i].filename) # Contents(keys[j].filename))
              => keys[i].cachePath # keys[j].cachePath

\* C6, as claimed: two files with identical content and identical seed
\* digest map to the same cache path, whatever their paths and names.
C6_DedupWhateverTheName ==
    \A i \in Sides, j \in Sides :
        (/\ Derived(i) /\ Derived(j)
         /\ keys[i].fn.cacheKey = keys[j].fn.cacheKey
         /\ ReadFileSync(keys[i].filename) = ReadFileSync(keys[j].filename))
        => keys[i].cachePath = keys[j].cachePath

\* C6, amended: two files with identical content, identical seed digest and
\* the same extension map to the same cache path, whatever their
\* directories and base names.
C6_DedupForSameExtension ==
    \A i \in Sides, j \in Sides :
        (/\ Derived(i) /\ Derived(j)
         /\ keys[i].fn.cacheKey = keys[j].fn.cacheKey
         /\ ReadFileSync(keys[i].filename) = ReadFileSync(keys[j].filename)
         /\ ExtName(keys[i].filename) = ExtName(keys[j].filename))
        => keys[i].cachePath = keys[j].cachePath

C6_Witness ==
    /\ Derived(1) /\ Derived(2)
    /\ keys[1].fn.cacheKey = keys[2].fn.cacheKey
    /\ keys[1].filename = FileA
    /\ keys[2].filename = FileE
    /\ keys[1].cachePath = keys[2].cachePath

----------------------------------------------------------------------------
(* Properties of validate and build *)

\* an object whose only key is testOptions, holding an object that is
\* neither an array nor null
WellFormed(c) ==
    /\ c.t = "object"
    /\ DOMAIN c.v = {"testOptions"}
    /\ c.v["testOptions"].t = "object"

\* C9, as claimed: with the configuration false, validate returns the
\* disabled value and build returns None for every value of the
\* builtin-enhancements flag.
C9_DisabledForEveryFlag ==
    (conf = Bool(FALSE) /\ stage = "built")
    => /\ resolved = Returned(Null)
       /\ built.out = Null

\* C9, amended: with the configuration false, validate returns the disabled
\* value, and build returns None exactly when the builtin-enhancements flag
\* is off; with the flag on it returns a transform function.
C9_DisabledUnlessEnhancements ==
    (conf = Bool(FALSE) /\ stage # "start")
    => /\ resolved = Returned(Null)
       /\ stage = "built"
          => /\ (built.out = Null) <=> ~built.compileEnhancements
             /\ built.compileEnhancements => built.out.t = "function"

C9_Witness ==
    /\ conf = Bool(FALSE)
    /\ stage = "built"
    /\ built.compileEnhancements
    /\ built.out # Null

\* C10: validate fails exactly when the configuration is neither false nor
\* undefined and is not an object whose only key is testOptions holding a
\* plain options object; in the error case no value is returned.
C10_ValidateRejectsExactly ==
    stage # "start"
    => /\ resolved.threw
          <=> (conf # Bool(FALSE) /\ conf # Undefined /\ ~WellFormed(conf))
       /\ resolved.threw => "value" \notin DOMAIN resolved

C10_Witness ==
    /\ stage = "validated"
    /\ resolved.threw
    /\ conf.t = "object"
    /\ DOMAIN conf.v = {"testOptions", "extraKey"}
    /\ conf.v["testOptions"] \in OptionObjects

\* the options the caller supplied under testOptions, {} when the
\* configuration was undefined
UserTestOptions == IF given = Undefined THEN <<>> ELSE Get(given, "testOptions").v

\* C11: when validate accepts a configuration other than false, the
\* testOptions it returns hold every key the caller supplied with the
\* caller's value, babelrc is true when the caller supplied none and the
\* caller's value otherwise, no other key appears, and the object the caller
\* handed over is as it was.
C11_DefaultsMergedUnderUserOptions ==
    (stage # "start" /\ ~resolved.threw /\ given # Bool(FALSE))
    => LET merged == Get(resolved.value, "testOptions").v
       IN /\ DOMAIN merged = DOMAIN UserTestOptions \cup {"babelrc"}
          /\ \A k \in DOMAIN UserTestOptions : merged[k] = UserTestOptions[k]
          /\ "babelrc" \notin DOMAIN UserTestOptions => merged["babelrc"] = Bool(TRUE)
          /\ conf = given

C11_Witness ==
    /\ stage = "validated"
    /\ ~resolved.threw
    /\ given = Obj([testOptions |-> Obj([babelrc |-> Bool(FALSE)])])
    /\ Get(resolved.value, "testOptions").v["babelrc"] = Bool(FALSE)

\* C12: at the step by which a call returns a cache path, by the fast path
\* or the slow one, with other calls in progress and after crashes, the
\* cache directory holds a code file at that path and a map file at
\* <path>.map.
C12_ReturnedPathHasCodeAndMap ==
    [][\A p \in Procs :
          (frame'[p] # frame[p] /\ frame'[p].pc = "done")
          => LET cp == frame'[p].ret.value
             IN /\ cp = CachePath(fn[p], frame'[p].filename)
                /\ ExistsSync(fs', cp)
                /\ fs'[cp].data.kind = "code"
                /\ ExistsSync(fs', MapPath(cp))
                /\ fs'[MapPath(cp)].data.kind = "map"]_vars

C12_Witness ==
    \E p \in Procs, q \in Procs :
        /\ p # q
        /\ frame[p].pc = "done" /\ frame[p].via = "slow"
        /\ frame[q].pc = "done" /\ frame[q].via = "fast"
        /\ frame[p].ret = frame[q].ret
        /\ frame[p].ret.value \in crashed

\* C13: of two files with the same extension, derived under the same seed
\* digest, one holding a byte order mark followed by the bytes of the
\* other, the content digests are equal and so are the cache paths.
C13_BomDoesNotChangeThePath ==
    \A i \in Sides, j \in Sides :
        ( /\ Derived(i) /\ Derived(j)
          /\ keys[i].fn.cacheKey = keys[j].fn.cacheKey
          /\ ExtName(keys[i].filename) = ExtName(keys[j].filename)
          /\ ReadFileSync(keys[i].filename) = BOM \o ReadFileSync(keys[j].filename) )
        => /\ keys[i].hash = keys[j].hash
           /\ keys[i].cachePath = keys[j].cachePath

C13_Witness ==
    /\ Derived(1) /\ Derived(2)
    /\ keys[1].fn.cacheKey = keys[2].fn.cacheKey
    /\ keys[1].filename = FileB
    /\ keys[2].filename = FileA
    /\ SubSeq(ReadFileSync(FileB), 1, 3) = BOM
    /\ keys[1].cachePath = keys[2].cachePath

----------------------------------------------------------------------------
(* Properties of racing calls *)

\* C14: a call in progress can always take its next step, whatever the
\* other processes are doing; each of its steps brings it nearer to its
\* end, so it ends after at most seven steps of its own; and two calls
\* that have returned for the same seed digest, content and extension have
\* returned the same cache path.
C14_RacingCallsNeverWait ==
    /\ [](\A p \in Procs : frame[p].pc \notin AtRest => ENABLED Step(p))
    /\ [][\A p \in Procs :
          /\ (frame[p].pc \notin AtRest /\ frame'[p] # frame[p])
             => StepsLeft(frame'[p].pc) < StepsLeft(frame[p].pc)
          /\ \A q \in Procs :
                ( /\ frame'[p].pc = "done" /\ frame'[q].pc = "done"
                  /\ fn[p].cacheKey = fn[q].cacheKey
                  /\ Contents(frame'[p].filename) = Contents(frame'[q].filename)
                  /\ ExtName(frame'[p].filename) = ExtName(frame'[q].filename) )
                => frame'[p].ret = frame'[q].ret]_vars

C14_Witness ==
    \E p \in Procs, q \in Procs :
        /\ p # q
        /\ frame[p].pc = "done" /\ frame[p].via = "slow" /\ frame[p].nEngine = 1
        /\ frame[q].pc = "done" /\ frame[q].via = "slow" /\ frame[q].nEngine = 1
        /\ frame[p].filename = frame[q].filename
        /\ frame[p].ret = frame[q].ret

\* C15: two slow paths that derived the same cache path handed the engine
\* the same text and the same options, input map and file name among them,
\* and the code file at a cache path and the map file at <path>.map hold
\* the output of one and the same engine invocation.
C15_SamePathSameBytes ==
    /\ \A p \in Procs, q \in Procs :
           ( /\ frame[p].result # Null /\ frame[q].result # Null
             /\ frame[p].cachePath = frame[q].cachePath )
           => frame[p].result = frame[q].result
    /\ \A cp \in CachePaths :
           (ExistsSync(fs, cp) /\ ExistsSync(fs, MapPath(cp)))
           => fs[cp].data.code = fs[MapPath(cp)].data.json

----------------------------------------------------------------------------
(* Order of the events of one call *)

\* the events of a slow path, in the order the function performs them
SlowPathOrder ==
    <<"engine returned", "map write begun", "map renamed",
      "code write begun", "code renamed">>

\* the step changes the file at `path`, or creates it
Touches(path) ==
    /\ path \in DOMAIN fs'
    /\ path \notin DOMAIN fs \/ fs'[path] # fs[path]

\* C16: what a call has done so far is always a prefix of engine return,
\* map write, map rename, code write, code rename; a step by which the
\* call writes its code file, under the temporary name or the final one,
\* comes after its own rename of the map file, and a step by which it
\* writes either file comes after the engine returned to it successfully.
C16_EngineThenMapThenCode ==
    [][\A p \in Procs :
          LET cp == frame[p].cachePath
              before == { frame[p].log[i] : i \in DOMAIN frame[p].log }
          IN /\ frame'[p].log = SubSeq(SlowPathOrder, 1, Len(frame'[p].log))
             /\ (frame'[p] # frame[p] /\ frame[p].pc \notin AtRest)
                => /\ (Touches(TmpName(cp, p)) \/ Touches(cp))
                      => {"engine returned", "map renamed"} \subseteq before
                   /\ (Touches(TmpName(MapPath(cp), p)) \/ Touches(MapPath(cp)))
                      => "engine returned" \in before
                             /\ frame[p].result # Null]_vars

C16_Witness ==
    \E p \in Procs :
        /\ frame[p].pc = "done"
        /\ frame[p].log = SlowPathOrder
        /\ frame[p].nEngine = 1
        /\ frame[p].nWrites = 2

----------------------------------------------------------------------------
(* Properties of what build makes of its arguments *)

\* the variable is set in the environment build ran in, to a value that is
\* not the empty string
SetAndNotEmpty(name) == name \in DOMAIN built.env /\ built.env[name] # <<>>

\* the environment name build put in the seed
SeedEnvName == built.out.seedInputs[4]

\* C17: the environment name in the seed is BABEL_ENV when that is given;
\* else the value of NODE_ENV whenever NODE_ENV is set, the empty string
\* included; else, NODE_ENV being absent, 'test'.
C17_EmptyNodeEnvIsKept ==
    (stage = "built" /\ built.out # Null)
    => /\ SetAndNotEmpty("BABEL_ENV") => SeedEnvName = built.env["BABEL_ENV"]
       /\ (~SetAndNotEmpty("BABEL_ENV") /\ "NODE_ENV" \in DOMAIN built.env)
          => SeedEnvName = built.env["NODE_ENV"]
       /\ (~SetAndNotEmpty("BABEL_ENV") /\ "NODE_ENV" \notin DOMAIN built.env)
          => SeedEnvName = TestEnv

\* C17, amended: the environment name in the seed, which is also the one
\* handed to the engine, is BABEL_ENV when that is set and not empty; else
\* NODE_ENV when that is set and not empty; else 'test' when NODE_ENV is
\* absent and 'development' when NODE_ENV is set to the empty string.  It
\* is never empty.
C17_EmptyNodeEnvIsDevelopment ==
    (stage = "built" /\ built.out # Null)
    => /\ SetAndNotEmpty("BABEL_ENV") => SeedEnvName = built.env["BABEL_ENV"]
       /\ (~SetAndNotEmpty("BABEL_ENV") /\ SetAndNotEmpty("NODE_ENV"))
          => SeedEnvName = built.env["NODE_ENV"]
       /\ (~SetAndNotEmpty("BABEL_ENV") /\ "NODE_ENV" \notin DOMAIN built.env)
          => SeedEnvName = TestEnv
       /\ ( /\ ~SetAndNotEmpty("BABEL_ENV")
            /\ "NODE_ENV" \in DOMAIN built.env
            /\ built.env["NODE_ENV"] = <<>> )
          => SeedEnvName = DevelopmentEnv
       /\ SeedEnvName # <<>>
       /\ built.out.finalOptions["envName"] = SeedEnvName

C17_Witness ==
    /\ stage = "built"
    /\ built.out # Null
    /\ built.env = [NODE_ENV |-> <<>>]
    /\ SeedEnvName = DevelopmentEnv

\* the resolved values of a list of config items, in order
Values(items) == [i \in 1..Len(items) |-> items[i].value]

\* the resolved values of the entries the user listed under `key`
UserValues(key) ==
    IF Truthy(resolved.value) /\ key \in DOMAIN Get(resolved.value, "testOptions").v
    THEN Values(ConfigItems(Get(resolved.value, "testOptions").v[key], key))
    ELSE <<>>

In(x, s) == \E i \in 1..Len(s) : s[i] = x

\* C18: in the options build hands on, the plugin list is the user's
\* plugins in their order, preceded by the object-rest-spread syntax plugin
\* when the user listed no entry resolving to it and then by the
\* async-generators syntax plugin when the user listed no entry resolving
\* to it, so that both occur once added or already there; the preset list
\* is the user's presets in their order, preceded by the staged-syntax
\* preset exactly when user options were supplied and the user did not list
\* it, and followed by the enhancement preset exactly when the builtin
\* enhancements were requested and the user did not list it.
C18_BaselineEntriesMergedOnce ==
    (stage = "built" /\ built.out # Null)
    => LET plugins == Values(built.out.finalOptions["plugins"])
           presets == Values(built.out.finalOptions["presets"])
           up == UserValues("plugins")
           us == UserValues("presets")
       IN /\ In(AsyncGenerators, plugins) /\ In(ObjectRestSpread, plugins)
          /\ plugins = (IF In(ObjectRestSpread, up) THEN <<>> ELSE <<ObjectRestSpread>>)
                       \o (IF In(AsyncGenerators, up) THEN <<>> ELSE <<AsyncGenerators>>)
                       \o up
          /\ presets = (IF Truthy(resolved.value) /\ ~In(Stage4, us)
                        THEN <<Stage4>> ELSE <<>>)
                       \o us
                       \o (IF built.compileEnhancements /\ ~In(TransformTestFiles, us)
                           THEN <<TransformTestFiles>> ELSE <<>>)

C18_Witness ==
    /\ stage = "built"
    /\ built.out # Null
    /\ built.compileEnhancements
    /\ In(ObjectRestSpread, UserValues("plugins"))
    /\ Len(built.out.finalOptions["plugins"]) = 3
    /\ built.out.finalOptions["plugins"][1].value = AsyncGenerators

----------------------------------------------------------------------------
(* Properties of the source-map locator *)

\* C19: a call that did not take the fast path and is past the locator has
\* invoked the engine, whatever source-map comment the file carries: the
\* locator hands back a map or none and never ends the call; when the
\* comment is malformed or names a missing file the engine is handed no map.
C19_LocatorNeverRaises ==
    \A p \in Procs :
        (frame[p].pc \notin {"idle", "transform"} /\ frame[p].via # "fast")
        => /\ frame[p].nEngine = 1
           /\ (frame[p].filename \in {FileH, FileJ, FileK} /\ frame[p].result # Null)
              => frame[p].result.code.options["inputSourceMap"] = Undefined

============================================================================
